---- MODULE Spec2Model ----
(***************************************************************************)
(* Model of the two website build scripts of the repository:              *)
(*   website/scripts/list-of-themes.js  (theme loading, inheritance       *)
(*       resolution, scope fallback, palette normalisation, rendering)    *)
(*   website/scripts/termshots.js       (index.astro scaffold generator)  *)
(*                                                                         *)
(* JavaScript values are modelled as tagged records:                      *)
(*   [t |-> "undefined"]           undefined                              *)
(*   [t |-> "str", s |-> "..."]    a string                               *)
(*   [t |-> "tbl", f |-> fn]       a plain object; fn maps its own keys   *)
(*   [t |-> "ref", id |-> name]    a reference to a loaded theme object   *)
(* Theme documents are mutable objects shared by reference, so they live  *)
(* in a heap keyed by the name of the theme they were loaded for.         *)
(***************************************************************************)
EXTENDS Integers, Sequences, FiniteSets, TLC

VARIABLES
    pc,              \* position of list-of-themes.js
    unmergedThemes,  \* [name, document reference] pairs in listing order
    heap,            \* theme object id -> current content of that object
    loaded,          \* theme object id -> content as parsed from its file
    themes1,         \* result of the first .map(resolveInheritedTheme)
    themes,          \* result of the second .map(resolveInheritedTheme)
    error,           \* exception that ended the script, or "none"
    background,      \* the `background` object of the flatMap callback
    palette,         \* theme.palette as handed to the normalizer
    resolved,        \* scope -> color (object reference or primitive)
    objs,            \* color object id -> current content of that object
    html,            \* template slot -> text themeToHtml interpolated
    run,             \* termshots.js: number of the current run
    position,        \* termshots.js: index of the next forEach callback
    isDirectory,     \* entry of src/termshots -> lstat says directory
    listing,         \* folder -> its files in readdir order
    indexFile,       \* folder -> content of its index.astro
    written          \* the writeFileSync calls made so far

resolveVars == <<unmergedThemes, heap, loaded, themes1, themes>>

colorVars == <<background, palette, resolved, objs, html>>

scaffoldVars == <<run, position, isDirectory, listing, indexFile, written>>

vars == <<pc, error, resolveVars, colorVars, scaffoldVars>>

----------------------------------------------------------------------------
(* JavaScript values *)

Undefined == [t |-> "undefined"]

Str(s) == [t |-> "str", s |-> s]

Tbl(f) == [t |-> "tbl", f |-> f]

Ref(id) == [t |-> "ref", id |-> id]

EmptyObj == [k \in {} |-> Undefined]

\* obj[key] : undefined when obj is no object or has no such key
Get(obj, key) ==
    IF obj.t = "tbl" /\ key \in DOMAIN obj.f THEN obj.f[key] ELSE Undefined

\* JavaScript truthiness of the modelled values
Truthy(v) ==
    CASE v.t = "undefined" -> FALSE
      [] v.t = "str" -> v.s # ""
      [] OTHER -> TRUE

isObject(item) == Truthy(item) /\ item.t = "tbl"

----------------------------------------------------------------------------
(* mergeDeep: returns the content of `target` after the in-place merge.   *)
(* Only keys of the source whose value is an object are looked at; when   *)
(* the target has no (truthy) value under the key a fresh {} is created   *)
(* and merged into recursively, otherwise the target's key is rebound to  *)
(* the source's object.                                                   *)

RECURSIVE mergeDeep(_, _)
mergeDeep(target, sources) ==
    IF Len(sources) = 0 THEN target
    ELSE LET source == Head(sources)
             objKeys == IF isObject(source)
                        THEN {k \in DOMAIN source.f : isObject(source.f[k])}
                        ELSE {}
             merged ==
                IF isObject(target) /\ isObject(source)
                THEN Tbl([key \in DOMAIN target.f \cup objKeys |->
                        IF key \in objKeys
                        THEN IF ~Truthy(Get(target, key))
                             THEN mergeDeep(Tbl(EmptyObj), <<source.f[key]>>)
                             ELSE source.f[key]
                        ELSE target.f[key]])
                ELSE target
         IN mergeDeep(merged, Tail(sources))

----------------------------------------------------------------------------
(* The loaded theme set *)

DirThemes == {"catppuccin_mocha", "catppuccin_latte", "custom"}

DefaultTheme == "theme"

ThemeNames == DirThemes \cup {DefaultTheme}

MissingTheme == "nosuch"

\* themeMap = new Map(unmergedThemes): name -> the object loaded for it
themeMapGet(key) ==
    IF key.t = "str" /\ key.s \in ThemeNames THEN Ref(key.s) ELSE Undefined

Deref(h, ref) == IF ref.t = "ref" THEN h[ref.id] ELSE Undefined

Store(h, ref, v) == IF ref.t = "ref" THEN [h EXCEPT ![ref.id] = v] ELSE h

\* resolveInheritedTheme([themeName, theme]) on heap h: the returned pair
\* and the heap after the two mergeDeep calls
resolveInheritedTheme(entry, h) ==
    LET themeName == entry[1]
        theme == Deref(h, entry[2])
    IN IF "inherits" \in DOMAIN theme.f
       THEN LET inheritedTheme == themeMapGet(theme.f["inherits"])
                h1 == Store(h, inheritedTheme,
                            mergeDeep(Deref(h, inheritedTheme), <<theme>>))
                h2 == Store(h1, inheritedTheme,
                            mergeDeep(Deref(h1, inheritedTheme),
                                      <<Deref(h1, entry[2])>>))
            IN [entry |-> <<themeName, inheritedTheme>>, heap |-> h2]
       ELSE [entry |-> entry, heap |-> h]

----------------------------------------------------------------------------
(* Theme documents the model loads *)

BodyDark ==
    ( "keyword" :> Str("#ff0000")
   @@ "ui.background" :> Tbl("fg" :> Str("#eeeeee") @@ "bg" :> Str("#111111"))
   @@ "comment" :> Tbl("fg" :> Str("gray"))
   @@ "palette" :> Tbl("gray" :> Str("#888888")) )

BodyLight ==
    ( "keyword" :> Tbl("fg" :> Str("red"))
   @@ "ui.background" :> Tbl("bg" :> Str("#222222"))
   @@ "variable" :> Str("#00ff00") )

BodyPlain ==
    ( "comment" :> Tbl("fg" :> Str("#777777") @@ "bg" :> Str("#111111"))
   @@ "variable" :> Tbl("fg" :> Str("red"))
   @@ "diagnostic" :> Tbl("underline" :> Tbl("color" :> Str("red")
                                              @@ "style" :> Str("curl"))) )

Bodies == {BodyDark, BodyLight, BodyPlain}

WithInherits(body, parent) == Tbl(("inherits" :> Str(parent)) @@ body)

\* theme.toml, the default theme, is a root; a theme of the themes directory
\* may inherit any other theme, or name one that is not there
ThemeDocs(name) ==
    {Tbl(b) : b \in Bodies}
    \cup IF name = DefaultTheme THEN {}
         ELSE {WithInherits(b, p) :
                  b \in Bodies,
                  p \in (ThemeNames \ {name}) \cup {MissingTheme}}

Perms(S) ==
    {s \in [1..Cardinality(S) -> S] :
        \A i, j \in 1..Cardinality(S) : i # j => s[i] # s[j]}

----------------------------------------------------------------------------
(* Normalization: the flatMap callback (scope fallback chains)            *)
(*                                                                         *)
(* A resolved scope is a primitive string or an object.  Objects are      *)
(* mutated by the palette pass and several scopes can hold the same       *)
(* object, so each object has an id:                                      *)
(*   <<"theme", key>>       the theme's own value theme[key]              *)
(*   <<"fresh", scope>>     an object literal created while computing     *)
(*                          the entry of `scope`                          *)
(*   <<"background", "">>   the callback's `background` object            *)

RenderedTheme == "catppuccin_mocha"

DefaultForeground == "#ffaaaa"

\* the strings of the model that begin with "#"
HexLiterals ==
    {"#ffaaaa", "#111111", "#222222", "#eeeeee", "#ff0000", "#00ff00",
     "#777777", "#888888", "#0000ff"}

\* const isHex = (s) => s.startsWith("#")
isHex(s) == s \in HexLiterals

Obj(id, content) == [t |-> "obj", id |-> id, init |-> content]

\* const background = { bg: theme["ui.background"].bg,
\*                      fg: theme["ui.background"].fg || "#ffaaaa" }
Background(theme) ==
    LET ui == Get(theme, "ui.background")
    IN ( "bg" :> Get(ui, "bg")
      @@ "fg" :> (IF Truthy(Get(ui, "fg")) THEN Get(ui, "fg")
                  ELSE Str(DefaultForeground)) )

\* getColor(key, fallback); `fallback` is the value fallback() returns and
\* `owner` the scope whose entry is being computed
getColor(theme, key, fallback, owner) ==
    LET value == Get(theme, key)
    IN IF value.t = "str" THEN Obj(<<"fresh", owner>>, "fg" :> value)
       ELSE IF ~Truthy(value) THEN fallback
       ELSE Obj(<<"theme", key>>, value.f)

getFallbackColor(theme, primaryKey, fallbackFn, owner) ==
    LET value == Get(theme, primaryKey)
    IN IF value.t = "str" THEN Obj(<<"fresh", owner>>, "fg" :> value)
       ELSE IF ~Truthy(value) THEN fallbackFn
       ELSE Obj(<<"theme", primaryKey>>, value.f)

getUiBackground(bgd) == Obj(<<"background", "">>, bgd)

getVariable(theme, bgd, owner) ==
    getColor(theme, "variable", bgd["fg"], owner)

getFunction(theme, bgd, owner) ==
    getFallbackColor(theme, "function", getVariable(theme, bgd, owner), owner)

getMacro(theme, bgd, owner) ==
    getFallbackColor(theme, "function.macro", getFunction(theme, bgd, owner),
                     owner)

getKeyword(theme, bgd, owner) ==
    getFallbackColor(theme, "keyword", getVariable(theme, bgd, owner), owner)

getUiLinenr(theme, bgd, owner) ==
    getColor(theme, "ui.linenr", bgd["fg"], owner)

getHighlight(theme, bgd, owner) ==
    getColor(theme, "ui.highlight", getUiBackground(bgd), owner)

\* a cursor that takes the highlight chain as its fallback
getUiCursorViaHighlight(theme, bgd, owner) ==
    getFallbackColor(theme, "ui.cursor.primary",
                     getHighlight(theme, bgd, owner), owner)

getUiLinenrSelected(theme, bgd, owner) ==
    getFallbackColor(theme, "ui.linenr.selected",
                     getHighlight(theme, bgd, owner), owner)

getOperator(theme, bgd, owner) ==
    getColor(theme, "operator", bgd["fg"], owner)

getPunctuation(theme, bgd, owner) ==
    getColor(theme, "punctuation", bgd["fg"], owner)

getConstant(theme, bgd, owner) ==
    getFallbackColor(theme, "constant", getVariable(theme, bgd, owner), owner)

getConstantNumeric(theme, bgd, owner) ==
    getFallbackColor(theme, "constant.numeric",
                     getConstant(theme, bgd, owner), owner)

getPunctuationDelimiter(theme, bgd, owner) ==
    getFallbackColor(theme, "punctuation.delimiter",
                     getPunctuation(theme, bgd, owner), owner)

getVariableParameter(theme, bgd, owner) ==
    getFallbackColor(theme, "variable.parameter",
                     getVariable(theme, bgd, owner), owner)

getComment(theme, bgd, owner) ==
    getColor(theme, "comment", bgd["fg"], owner)

getType(theme, bgd, owner) ==
    getFallbackColor(theme, "type", getVariable(theme, bgd, owner), owner)

getTypeBuiltin(theme, bgd, owner) ==
    getFallbackColor(theme, "type.builtin", getType(theme, bgd, owner), owner)

\* a statusline whose missing bg takes the background's fg
getUiStatuslineCrossed(theme, bgd, owner) ==
    LET uiStatusline == Get(theme, "ui.statusline")
    IN IF ~Truthy(uiStatusline) THEN Obj(<<"fresh", owner>>, EmptyObj)
       ELSE Obj(<<"fresh", owner>>,
                ( "fg" :> (IF Truthy(Get(uiStatusline, "fg"))
                           THEN Get(uiStatusline, "fg") ELSE bgd["fg"])
               @@ "bg" :> (IF Truthy(Get(uiStatusline, "bg"))
                           THEN Get(uiStatusline, "bg") ELSE bgd["fg"]) ))

\* if (!uiStatusline) return {};
\* return { fg: uiStatusline.fg || background.fg,
\*          bg: uiStatusline.bg || background.bg }
getUiStatusline(theme, bgd, owner) ==
    LET uiStatusline == Get(theme, "ui.statusline")
    IN IF ~Truthy(uiStatusline) THEN Obj(<<"fresh", owner>>, EmptyObj)
       ELSE Obj(<<"fresh", owner>>,
                ( "fg" :> (IF Truthy(Get(uiStatusline, "fg"))
                           THEN Get(uiStatusline, "fg") ELSE bgd["fg"])
               @@ "bg" :> (IF Truthy(Get(uiStatusline, "bg"))
                           THEN Get(uiStatusline, "bg") ELSE bgd["bg"]) ))

getUiCursorline(theme, bgd, owner) ==
    getFallbackColor(theme, "ui.cursorline", getHighlight(theme, bgd, owner),
                     owner)

getUiCursorlinePrimary(theme, bgd, owner) ==
    getFallbackColor(theme, "ui.cursorline.primary",
                     getUiCursorline(theme, bgd, owner), owner)

getUiVirtualInlayHint(theme, bgd, owner) ==
    getColor(theme, "ui.virtual.inlay-hint", bgd["fg"], owner)

getUiVirtual(theme, bgd, owner) ==
    getFallbackColor(theme, "ui.virtual",
                     getUiVirtualInlayHint(theme, bgd, owner), owner)

getUiCursor(theme, bgd, owner) ==
    getFallbackColor(theme, "ui.cursor.primary", bgd["fg"], owner)

getUiVirtualIndentGuide(theme, bgd, owner) ==
    getFallbackColor(theme, "ui.virtual.indent-guide",
                     getUiVirtualInlayHint(theme, bgd, owner), owner)

getUiVirtualRuler(theme, bgd, owner) ==
    getFallbackColor(theme, "ui.virtual.ruler",
                     getUiVirtualIndentGuide(theme, bgd, owner), owner)

\* the keys of the object literal the callback returns, in source order
ScopeOrder ==
    << "ui.background", "keyword", "variable", "variable.parameter",
       "ui.statusline", "ui.linenr", "function", "function.macro",
       "operator", "punctuation", "punctuation.delimiter", "constant",
       "constant.numeric", "comment", "type.builtin",
       "ui.cursorline.primary", "ui.linenr.selected", "ui.virtual.ruler",
       "ui.virtual", "ui.cursor" >>

Scopes == {ScopeOrder[i] : i \in DOMAIN ScopeOrder}

\* the value of one entry of the returned object literal
ScopeValue(theme, bgd, scope) ==
    CASE scope = "ui.background" -> getUiBackground(bgd)
      [] scope = "keyword" -> getKeyword(theme, bgd, scope)
      [] scope = "variable" -> getVariable(theme, bgd, scope)
      [] scope = "variable.parameter" -> getVariableParameter(theme, bgd, scope)
      [] scope = "ui.statusline" -> getUiStatusline(theme, bgd, scope)
      [] scope = "ui.linenr" -> getUiLinenr(theme, bgd, scope)
      [] scope = "function" -> getFunction(theme, bgd, scope)
      [] scope = "function.macro" -> getMacro(theme, bgd, scope)
      [] scope = "operator" -> getOperator(theme, bgd, scope)
      [] scope = "punctuation" -> getPunctuation(theme, bgd, scope)
      [] scope = "punctuation.delimiter" ->
             getPunctuationDelimiter(theme, bgd, scope)
      [] scope = "constant" -> getConstant(theme, bgd, scope)
      [] scope = "constant.numeric" -> getConstantNumeric(theme, bgd, scope)
      [] scope = "comment" -> getComment(theme, bgd, scope)
      [] scope = "type.builtin" -> getTypeBuiltin(theme, bgd, scope)
      [] scope = "ui.cursorline.primary" ->
             getUiCursorlinePrimary(theme, bgd, scope)
      [] scope = "ui.linenr.selected" -> getUiLinenrSelected(theme, bgd, scope)
      [] scope = "ui.virtual.ruler" -> getUiVirtualRuler(theme, bgd, scope)
      [] scope = "ui.virtual" -> getUiVirtual(theme, bgd, scope)
      [] scope = "ui.cursor" -> getUiCursor(theme, bgd, scope)

\* what a resolved entry holds: the primitive itself, or the object's id
Slot(v) == IF v.t = "obj" THEN [t |-> "obj", id |-> v.id] ELSE v

\* the objects the returned literal refers to, with their content
ObjectsOf(theme, bgd) ==
    LET vals == {ScopeValue(theme, bgd, s) : s \in Scopes}
        ids == {v.id : v \in {w \in vals : w.t = "obj"}}
    IN [id \in ids |->
          (CHOOSE v \in vals : v.t = "obj" /\ v.id = id).init]

----------------------------------------------------------------------------
(* Normalization: the palette pass over Object.entries(theme)             *)

\* color.fg / color.bg : undefined on a primitive string
Channel(os, color, ch) ==
    IF color.t = "obj" /\ ch \in DOMAIN os[color.id]
    THEN os[color.id][ch] ELSE Undefined

\* palette[key]; the caller has made sure palette is not undefined
PaletteLookup(pal, key) == Get(pal, key)

\* if (typeof color.X === "string") if (!isHex(color.X))
\*     color.X = palette[color.X];
\* st is [objs, failed]; indexing an undefined palette throws
NormalizeChannel(st, pal, color, ch) ==
    LET v == Channel(st.objs, color, ch)
    IN IF st.failed \/ v.t # "str" \/ isHex(v.s) THEN st
       ELSE IF pal.t = "undefined" THEN [st EXCEPT !.failed = TRUE]
       ELSE [st EXCEPT !.objs[color.id] =
                ( ch :> PaletteLookup(pal, v.s) ) @@ st.objs[color.id]]

RECURSIVE NormalizeFrom(_, _, _, _)
NormalizeFrom(i, st, pal, res) ==
    IF i > Len(ScopeOrder) THEN st
    ELSE LET color == res[ScopeOrder[i]]
             afterFg == NormalizeChannel(st, pal, color, "fg")
             afterBg == NormalizeChannel(afterFg, pal, color, "bg")
         IN NormalizeFrom(i + 1, afterBg, pal, res)

NormalizeAll(os, pal, res) ==
    NormalizeFrom(1, [objs |-> os, failed |-> FALSE], pal, res)

----------------------------------------------------------------------------
(* themeToHtml *)

\* `${value}` in a template literal
Interpolate(v) ==
    CASE v.t = "str" -> v.s
      [] v.t = "undefined" -> "undefined"
      [] OTHER -> "[object Object]"

\* the theme-derived interpolations of the template, by expression
themeToHtml(res, os) ==
    ( "ui.background.bg" :> Interpolate(Channel(os, res["ui.background"], "bg"))
   @@ "ui.background.fg" :> Interpolate(Channel(os, res["ui.background"], "fg"))
   @@ "ui.linenr.fg" :> Interpolate(Channel(os, res["ui.linenr"], "fg"))
   @@ "keyword.fg" :> Interpolate(Channel(os, res["keyword"], "fg"))
   @@ "ui.virtual.fg" :> Interpolate(Channel(os, res["ui.virtual"], "fg"))
   @@ "ui.virtual" :> Interpolate(res["ui.virtual"])
   @@ "function.fg" :> Interpolate(Channel(os, res["function"], "fg"))
   @@ "punctuation.fg" :> Interpolate(Channel(os, res["punctuation"], "fg"))
   @@ "operator.fg" :> Interpolate(Channel(os, res["operator"], "fg"))
   @@ "ui.cursorline.primary.bg" :>
         Interpolate(Channel(os, res["ui.cursorline.primary"], "bg"))
   @@ "ui.cursorline.primary" :> Interpolate(res["ui.cursorline.primary"])
   @@ "ui.linenr.selected.fg" :>
         Interpolate(Channel(os, res["ui.linenr.selected"], "fg"))
   @@ "ui.cursor.fg" :> Interpolate(Channel(os, res["ui.cursor"], "fg"))
   @@ "function.macro.fg" :>
         Interpolate(Channel(os, res["function.macro"], "fg"))
   @@ "constant.numeric.fg" :>
         Interpolate(Channel(os, res["constant.numeric"], "fg")) )

ColorInit ==
    /\ background = EmptyObj
    /\ palette = Undefined
    /\ resolved = EmptyObj
    /\ objs = EmptyObj
    /\ html = EmptyObj


----------------------------------------------------------------------------
(* termshots.js                                                           *)
(*                                                                         *)
(* A file name is the sequence of its characters; generated text is a     *)
(* sequence of pieces, each a character or a literal of the template.     *)

DotAstro == <<".", "a", "s", "t", "r", "o">>

IndexAstro == <<"i", "n", "d", "e", "x">> \o DotAstro

FileNames ==
    { <<"a">> \o DotAstro,
      <<"b", "c">> \o DotAstro,
      <<"a", ".", "e", "x", "t">>,
      IndexAstro }

\* the entries of src/termshots, in listing order
termshotFolders == <<"basics", "usage">>

MaxFiles == 3

MaxRuns == 2

\* content of an index.astro that termshots.js did not write
StaleContent == <<"stale">>

NoFile == <<"ENOENT">>

\* a slip: file.slice(0, -5)
SliceOffFive(file) ==
    IF Len(file) > 5 THEN SubSeq(file, 1, Len(file) - 5) ELSE <<>>

\* file.slice(0, -6)
SliceOffExtension(file) ==
    IF Len(file) > 6 THEN SubSeq(file, 1, Len(file) - 6) ELSE <<>>

\* (baseName, fileName) => `import ${baseName} from "./${fileName}";`
ImportStatement(baseName, fileName) ==
    <<"import ">> \o baseName \o <<" from \"./">> \o fileName \o <<"\";">>

\* (baseName) => `\t${baseName},`
ExportEntry(baseName) == <<"\t">> \o baseName \o <<",">>

contentGenerator(kind, baseName, fileName) ==
    IF kind = "import" THEN ImportStatement(baseName, fileName)
    ELSE ExportEntry(baseName)

\* a slip: the generated file is not skipped
NeverSkipped(file) == FALSE

\* if (file === "index.astro") return contents;
IsGeneratedFile(file) == file = IndexAstro

\* files.reduce(...): `kind` names which of the two generators is passed
generateFileContents(files, kind) ==
    LET contents[i \in 0..Len(files)] ==
            IF i = 0 THEN <<>>
            ELSE IF IsGeneratedFile(files[i]) THEN contents[i - 1]
            ELSE contents[i - 1] \o <<"\n">>
                 \o contentGenerator(kind, SliceOffExtension(files[i]),
                                     files[i])
    IN contents[Len(files)]

\* a backquote cannot be written in a string: it is the piece "[backquote]"
disclaimer ==
    <<"/*\n * This file was generated by ", "[backquote]", "pnpm termshots",
      "[backquote]", "\n */">>

indexAstroContent(filesInFolder) ==
    <<"---\n">> \o disclaimer \o <<"\n">>
    \o generateFileContents(filesInFolder, "import")
    \o <<"\n\nexport const T = {">>
    \o generateFileContents(filesInFolder, "export")
    \o <<"\n};\n---">>

\* fs.writeFileSync(path, data) on a file whose content was old
writeFileSync(old, data) == data

\* directory listings: the sequences of distinct names of at most MaxFiles
Listings ==
    UNION { {s \in [1..n -> FileNames] :
                \A i, j \in 1..n : i # j => s[i] # s[j]} : n \in 0..MaxFiles }

\* a listing with `file` added at position pos + 1
InsertAt(files, pos, file) ==
    SubSeq(files, 1, pos) \o <<file>> \o SubSeq(files, pos + 1, Len(files))

Contains(files, file) == \E i \in DOMAIN files : files[i] = file

ScaffoldIdle ==
    /\ run = 0
    /\ position = 0
    /\ isDirectory = [f \in {} |-> FALSE]
    /\ listing = [f \in {} |-> <<>>]
    /\ indexFile = [f \in {} |-> NoFile]
    /\ written = <<>>

ThemesIdle ==
    /\ pc = "idle"
    /\ error = "none"
    /\ unmergedThemes = <<>>
    /\ heap = EmptyObj
    /\ loaded = EmptyObj
    /\ themes1 = <<>>
    /\ themes = <<>>
    /\ ColorInit

Folders == {termshotFolders[i] : i \in DOMAIN termshotFolders}

ScaffoldInit ==
    /\ ThemesIdle
    /\ run = 1
    /\ position = 1
    /\ isDirectory \in [Folders -> BOOLEAN]
    /\ listing \in [Folders -> Listings]
    /\ \A f \in Folders : ~isDirectory[f] => listing[f] = <<>>
    /\ indexFile = [f \in Folders |->
                      IF Contains(listing[f], IndexAstro) THEN StaleContent
                      ELSE NoFile]
    /\ written = <<>>

\* one callback of termshotFolders.forEach on a directory
ScaffoldFolder ==
    /\ run \in 1..MaxRuns
    /\ position <= Len(termshotFolders)
    /\ LET folder == termshotFolders[position]
           filesInFolder == listing[folder]
           content == indexAstroContent(filesInFolder)
       IN /\ isDirectory[folder]
          /\ indexFile' = [indexFile EXCEPT
                              ![folder] = writeFileSync(indexFile[folder], content)]
          /\ IF Contains(filesInFolder, IndexAstro)
             THEN listing' = listing
             ELSE \E pos \in 0..Len(filesInFolder) :
                     listing' = [listing EXCEPT
                         ![folder] = InsertAt(filesInFolder, pos, IndexAstro)]
          /\ written' = Append(written,
                [run |-> run, folder |-> folder, files |-> filesInFolder,
                 content |-> content])
    /\ position' = position + 1
    /\ UNCHANGED <<run, isDirectory, pc, error, resolveVars, colorVars>>

\* one callback of termshotFolders.forEach on an entry that is no directory
SkipEntry ==
    /\ run \in 1..MaxRuns
    /\ position <= Len(termshotFolders)
    /\ ~isDirectory[termshotFolders[position]]
    /\ position' = position + 1
    /\ UNCHANGED <<run, isDirectory, listing, indexFile, written,
                   pc, error, resolveVars, colorVars>>

\* the script has ended and is run again
RunAgain ==
    /\ run < MaxRuns
    /\ position = Len(termshotFolders) + 1
    /\ run' = run + 1
    /\ position' = 1
    /\ UNCHANGED <<isDirectory, listing, indexFile, written,
                   pc, error, resolveVars, colorVars>>

ScaffoldNext ==
    \/ ScaffoldFolder
    \/ SkipEntry
    \/ RunAgain

SpecScaffold == ScaffoldInit /\ [][ScaffoldNext]_vars

----------------------------------------------------------------------------
(* list-of-themes.js *)


Init ==
    /\ pc = "pass1"
    /\ \E order \in Perms(DirThemes) :
          unmergedThemes =
              [i \in 1..Cardinality(ThemeNames) |->
                  IF i <= Cardinality(DirThemes)
                  THEN <<order[i], Ref(order[i])>>
                  ELSE <<DefaultTheme, Ref(DefaultTheme)>>]
    /\ \E mocha \in ThemeDocs("catppuccin_mocha"),
          latte \in ThemeDocs("catppuccin_latte"),
          custom \in ThemeDocs("custom"),
          default \in ThemeDocs(DefaultTheme) :
          heap = ( "catppuccin_mocha" :> mocha @@ "catppuccin_latte" :> latte
                @@ "custom" :> custom @@ DefaultTheme :> default )
    /\ loaded = heap
    /\ themes1 = <<>>
    /\ themes = <<>>
    /\ error = "none"
    /\ ColorInit
    /\ ScaffoldIdle

\* one callback of unmergedThemes.map(resolveInheritedTheme)
Resolve1 ==
    /\ pc = "pass1"
    /\ LET i == Len(themes1) + 1
           r == resolveInheritedTheme(unmergedThemes[i], heap)
       IN /\ themes1' = Append(themes1, r.entry)
          /\ heap' = r.heap
          /\ pc' = IF i = Len(unmergedThemes) THEN "pass2" ELSE "pass1"
    /\ UNCHANGED <<unmergedThemes, loaded, themes, error, colorVars, scaffoldVars>>

\* one callback of the second .map(resolveInheritedTheme)
Resolve2 ==
    /\ pc = "pass2"
    /\ LET i == Len(themes) + 1
       IN /\ themes1[i][2] # Undefined
          /\ LET r == resolveInheritedTheme(themes1[i], heap)
             IN /\ themes' = Append(themes, r.entry)
                /\ heap' = r.heap
                /\ pc' = IF i = Len(themes1) THEN "parse" ELSE "pass2"
    /\ UNCHANGED <<unmergedThemes, loaded, themes1, error, colorVars, scaffoldVars>>

\* `"inherits" in theme` with theme undefined throws a TypeError
Resolve2Throws ==
    /\ pc = "pass2"
    /\ themes1[Len(themes) + 1][2] = Undefined
    /\ error' = "TypeError"
    /\ pc' = "error"
    /\ UNCHANGED <<resolveVars, colorVars, scaffoldVars>>

\* the entry of `themes` the flatMap callback does not return [] for
RenderedEntry ==
    CHOOSE e \in {themes[i] : i \in DOMAIN themes} : e[1] = RenderedTheme

\* themes.flatMap(...): every other theme yields [], the rendered theme its
\* [themeName, theme.palette, {scope: color}] entry
Parse ==
    /\ pc = "parse"
    /\ LET theme == Deref(heap, RenderedEntry[2])
       IN /\ Get(theme, "ui.background") # Undefined
          /\ background' = Background(theme)
          /\ palette' = Get(theme, "palette")
          /\ resolved' = [s \in Scopes |->
                            Slot(ScopeValue(theme, Background(theme), s))]
          /\ objs' = ObjectsOf(theme, Background(theme))
    /\ pc' = "normalize"
    /\ UNCHANGED <<error, resolveVars, html, scaffoldVars>>

\* theme["ui.background"].bg with no ui.background throws a TypeError
ParseThrows ==
    /\ pc = "parse"
    /\ Get(Deref(heap, RenderedEntry[2]), "ui.background") = Undefined
    /\ error' = "TypeError"
    /\ pc' = "error"
    /\ UNCHANGED <<resolveVars, colorVars, scaffoldVars>>

\* .map(([name, palette, theme]) => Object.fromEntries(...))
\* The objects <<"theme", key>> are the rendered document's own values; from
\* here on their content is that of objs, and heap keeps the documents as
\* inheritance resolution left them.
Normalize ==
    /\ pc = "normalize"
    /\ ~NormalizeAll(objs, palette, resolved).failed
    /\ objs' = NormalizeAll(objs, palette, resolved).objs
    /\ pc' = "render"
    /\ UNCHANGED <<error, resolveVars, background, palette, resolved, html,
                   scaffoldVars>>

\* palette[color.fg] with theme.palette undefined throws a TypeError
NormalizeThrows ==
    /\ pc = "normalize"
    /\ NormalizeAll(objs, palette, resolved).failed
    /\ error' = "TypeError"
    /\ pc' = "error"
    /\ UNCHANGED <<resolveVars, colorVars, scaffoldVars>>

\* .map(themeToHtml).join("")
Render ==
    /\ pc = "render"
    /\ html' = themeToHtml(resolved, objs)
    /\ pc' = "done"
    /\ UNCHANGED <<error, resolveVars, background, palette, resolved, objs,
                   scaffoldVars>>

Next ==
    \/ Resolve1
    \/ Resolve2
    \/ Resolve2Throws
    \/ Parse
    \/ ParseThrows
    \/ Normalize
    \/ NormalizeThrows
    \/ Render

Spec == Init /\ [][Next]_vars

----------------------------------------------------------------------------
(* The normalization stage on its own: the rendered theme is drawn from   *)
(* documents that set, or leave out, the scopes the fallback chains read. *)

\* the document with the keys of `choice` that are not left out
MkDoc(choice) ==
    Tbl([k \in {x \in DOMAIN choice : choice[x] # Undefined} |-> choice[k]])

ColorsInit ==
    /\ pc = "parse"
    /\ error = "none"
    /\ unmergedThemes = << <<RenderedTheme, Ref(RenderedTheme)>> >>
    /\ themes1 = unmergedThemes
    /\ themes = unmergedThemes
    /\ \E uiBackground \in
              {Undefined, Tbl("bg" :> Str("#222222")),
               Tbl("fg" :> Str("#eeeeee") @@ "bg" :> Str("#111111"))},
          keyword \in {Undefined, Str("#ff0000"), Tbl("fg" :> Str("red"))},
          variable \in {Undefined, Str("red"), Tbl("fg" :> Str("#00ff00"))},
          function \in
              {Undefined, Tbl("fg" :> Str("blue") @@ "bg" :> Str("#222222"))},
          uiStatusline \in
              {Undefined, Tbl("fg" :> Str("#777777")),
               Tbl("bg" :> Str("#888888")),
               Tbl("fg" :> Str("#777777") @@ "bg" :> Str("#888888"))},
          uiCursor \in {Undefined, Str("#0000ff")},
          uiCursorPrimary \in
              {Undefined, Str("#ff0000"), Tbl("fg" :> Str("#00ff00"))},
          uiHighlight \in {Undefined, Tbl("bg" :> Str("#222222"))},
          pal \in {Undefined, Tbl(EmptyObj),
                   Tbl("red" :> Str("#ff0000") @@ "blue" :> Str("#0000ff"))} :
          heap = ( RenderedTheme :>
                     MkDoc( "ui.background" :> uiBackground
                         @@ "keyword" :> keyword
                         @@ "variable" :> variable
                         @@ "function" :> function
                         @@ "ui.statusline" :> uiStatusline
                         @@ "ui.cursor" :> uiCursor
                         @@ "ui.cursor.primary" :> uiCursorPrimary
                         @@ "ui.highlight" :> uiHighlight
                         @@ "palette" :> pal ) )
    /\ loaded = heap
    /\ ColorInit
    /\ ScaffoldIdle

ColorsNext ==
    \/ Parse
    \/ ParseThrows
    \/ Normalize
    \/ NormalizeThrows
    \/ Render

SpecColors == ColorsInit /\ [][ColorsNext]_vars

----------------------------------------------------------------------------
(* Properties of inheritance resolution (checked under Spec)              *)

AfterResolution == {"parse", "normalize", "render", "done"}

\* the pair the next resolveInheritedTheme callback is applied to
ResolvingEntry ==
    IF pc = "pass1" THEN unmergedThemes[Len(themes1) + 1]
    ELSE themes1[Len(themes) + 1]

\* the next step resolves a document that inherits a loaded theme
ResolvingChild ==
    /\ pc \in {"pass1", "pass2"}
    /\ ResolvingEntry[2].t = "ref"
    /\ themeMapGet(Get(Deref(heap, ResolvingEntry[2]), "inherits")).t = "ref"

ResolvingParent ==
    themeMapGet(Get(Deref(heap, ResolvingEntry[2]), "inherits")).id

\* the document `themes` associates with theme name n
ResolvedDoc(n) ==
    Deref(heap, (CHOOSE e \in {themes[i] : i \in DOMAIN themes} : e[1] = n)[2])

InheritsLoaded(n) ==
    themeMapGet(Get(loaded[n], "inherits")).t = "ref"

InheritsUnknown(n) ==
    /\ "inherits" \in DOMAIN loaded[n].f
    /\ themeMapGet(loaded[n].f["inherits"]) = Undefined

\* C1: inheritance resolution never mutates a parent theme document: the
\* document stored for every theme stays equal to the document loaded for
\* it, and a resolved child is a new copy, not the parent's own document.
C1_ParentNeverMutated ==
    /\ \A p \in DOMAIN heap : heap[p] = loaded[p]
    /\ \A i \in DOMAIN themes1 :
          InheritsLoaded(unmergedThemes[i][1]) =>
              themes1[i][2] # themeMapGet(Get(loaded[unmergedThemes[i][1]],
                                              "inherits"))

\* C2: for a theme document without `inherits`, resolution is the identity:
\* after both passes the document associated with its name equals the
\* document that was loaded for it.
C2_NoInheritsIsIdentity ==
    pc \in AfterResolution =>
        \A n \in DOMAIN loaded :
            "inherits" \notin DOMAIN loaded[n].f => ResolvedDoc(n) = loaded[n]

\* C3: when a child inherits a parent, every key of the child whose value
\* is not a nested table is in the resolved document with the child's value.
C3_ChildLeafReplacesParent ==
    [][ ResolvingChild =>
          LET child == Deref(heap, ResolvingEntry[2])
          IN \A k \in DOMAIN child.f :
                ~isObject(child.f[k]) =>
                    Get(heap'[ResolvingParent], k) = child.f[k] ]_vars

\* C4: when a child inherits a parent, nested-table keys are merged key by
\* key: a table only the parent has is unchanged, a table both have keeps
\* the parent's leaves the child does not set and takes the child's leaves,
\* and a table only the child has appears with all of the child's leaves.
C4_NestedTablesMergedKeyByKey ==
    [][ ResolvingChild =>
          LET child == Deref(heap, ResolvingEntry[2])
              parent == heap[ResolvingParent]
              result == heap'[ResolvingParent]
          IN /\ \A k \in DOMAIN parent.f \ DOMAIN child.f :
                    isObject(parent.f[k]) => Get(result, k) = parent.f[k]
             /\ \A k \in DOMAIN parent.f \cap DOMAIN child.f :
                    isObject(parent.f[k]) /\ isObject(child.f[k]) =>
                        /\ \A l \in DOMAIN child.f[k].f :
                              Get(Get(result, k), l) = child.f[k].f[l]
                        /\ \A l \in DOMAIN parent.f[k].f \ DOMAIN child.f[k].f :
                              Get(Get(result, k), l) = parent.f[k].f[l]
             /\ \A k \in DOMAIN child.f \ DOMAIN parent.f :
                    isObject(child.f[k]) => Get(result, k) = child.f[k] ]_vars

\* C5: for a chain where A inherits B and B inherits C, after the two
\* resolution passes every field that C defines and neither A nor B
\* defines is in A's resolved document with C's value.
C5_TwoLevelChainResolves ==
    pc \in AfterResolution =>
        \A a, b, c \in DOMAIN loaded :
            ( /\ Get(loaded[a], "inherits") = Str(b)
              /\ Get(loaded[b], "inherits") = Str(c)
              /\ "inherits" \notin DOMAIN loaded[c].f ) =>
                \A k \in DOMAIN loaded[c].f \
                         (DOMAIN loaded[a].f \cup DOMAIN loaded[b].f) :
                    Get(ResolvedDoc(a), k) = loaded[c].f[k]

\* C10: resolving a theme whose `inherits` names a theme that is not loaded
\* fails the run with an UnknownParentError: no resolved document (no
\* undefined merge target) is produced for it and nothing is rendered.
C10_UnknownParentIsFatal ==
    \A n \in DOMAIN loaded :
        InheritsUnknown(n) =>
            /\ \A i \in DOMAIN themes1 : themes1[i][1] # n
            /\ error \in {"none", "UnknownParentError"}
            /\ html = EmptyObj

----------------------------------------------------------------------------
(* Properties of normalization (checked under SpecColors)                 *)

\* C6: every color value that reaches the renderer is a hex literal: each
\* scope of the theme passed to themeToHtml is a pair whose fg, and bg when
\* present, is a string starting with "#".
C6_RendererGetsHexLiterals ==
    pc \in {"render", "done"} =>
        \A s \in Scopes :
            /\ resolved[s].t = "obj"
            /\ Channel(objs, resolved[s], "fg").t = "str"
            /\ isHex(Channel(objs, resolved[s], "fg").s)
            /\ "bg" \in DOMAIN objs[resolved[s].id] =>
                  /\ Channel(objs, resolved[s], "bg").t = "str"
                  /\ isHex(Channel(objs, resolved[s], "bg").s)

\* the rendered theme defines only ui.background (fg and bg) and keyword
\* (a hex string), next to its palette
OnlyBackgroundAndKeyword ==
    LET doc == loaded[RenderedTheme]
    IN /\ DOMAIN doc.f \ {"palette"} = {"ui.background", "keyword"}
       /\ DOMAIN doc.f["ui.background"].f = {"fg", "bg"}
       /\ doc.f["keyword"].t = "str"
       /\ isHex(doc.f["keyword"].s)

\* C7: for a theme that defines only ui.background and keyword, variable.fg,
\* function.fg and function.macro.fg equal ui.background.fg, and keyword.fg
\* is the keyword's own color.
C7_FallbackChainToBackground ==
    (pc \in {"render", "done"} /\ OnlyBackgroundAndKeyword) =>
        LET doc == loaded[RenderedTheme]
            fg == doc.f["ui.background"].f["fg"]
        IN /\ Channel(objs, resolved["variable"], "fg") = fg
           /\ Channel(objs, resolved["function"], "fg") = fg
           /\ Channel(objs, resolved["function.macro"], "fg") = fg
           /\ Channel(objs, resolved["keyword"], "fg") = doc.f["keyword"]

\* the fg or bg of scope s is a string that is neither a hex literal nor a
\* key of the palette (or there is no palette)
PaletteMiss(s, ch) ==
    LET v == Channel(objs, resolved[s], ch)
    IN /\ v.t = "str"
       /\ ~isHex(v.s)
       /\ (palette.t = "tbl" => v.s \notin DOMAIN palette.f)

\* C11: in the palette pass, when some scope's fg or bg is a non-hex string
\* that is not a key of the palette (or the theme has no palette), the run
\* fails with an UnresolvedPaletteKeyError and nothing is rendered; without
\* such a miss, a non-hex string that is a palette key is replaced by the
\* palette's entry and a hex string is left unchanged.
C11_PaletteMissIsFatal ==
    [][ pc = "normalize" =>
          IF \E s \in Scopes, ch \in {"fg", "bg"} : PaletteMiss(s, ch)
          THEN error' = "UnresolvedPaletteKeyError" /\ pc' = "error"
          ELSE \A s \in Scopes, ch \in {"fg", "bg"} :
                  LET v == Channel(objs, resolved[s], ch)
                      after == Channel(objs', resolved'[s], ch)
                  IN v.t = "str" =>
                        after = (IF isHex(v.s) THEN v
                                 ELSE palette.f[v.s]) ]_vars

\* C12 as stated: the resolved ui.cursor is the theme's own ui.cursor value
\* when the theme defines it (a string as {fg: string}, a pair as it is),
\* and otherwise the background foreground.
C12_CursorIsOwnUiCursor ==
    pc = "normalize" =>
        LET own == Get(loaded[RenderedTheme], "ui.cursor")
            cursor == resolved["ui.cursor"]
        IN /\ own.t = "str" =>
                 cursor.t = "obj" /\ objs[cursor.id] = ("fg" :> own)
           /\ own.t = "tbl" =>
                 cursor.t = "obj" /\ objs[cursor.id] = own.f
           /\ own = Undefined =>
                 \/ cursor = background["fg"]
                 \/ Channel(objs, cursor, "fg") = background["fg"]

\* C12: the resolved ui.cursor is the theme's own ui.cursor.primary value
\* when the theme defines that scope (a string as {fg: string}, a pair as it
\* is), and otherwise the background foreground, whatever the theme's
\* ui.cursor, ui.highlight and ui.cursorline are.
C12_CursorIsOwnCursorPrimary ==
    pc = "normalize" =>
        LET primary == Get(loaded[RenderedTheme], "ui.cursor.primary")
            cursor == resolved["ui.cursor"]
        IN /\ primary.t = "str" =>
                 /\ cursor = [t |-> "obj", id |-> <<"fresh", "ui.cursor">>]
                 /\ objs[cursor.id] = ("fg" :> primary)
           /\ primary.t = "tbl" =>
                 /\ cursor = [t |-> "obj",
                              id |-> <<"theme", "ui.cursor.primary">>]
                 /\ objs[cursor.id] = primary.f
           /\ primary = Undefined => cursor = background["fg"]

\* the theme sets ui.cursor and ui.highlight but no ui.cursor.primary, and
\* the resolved ui.cursor is the background foreground
C12_Witness ==
    /\ pc = "normalize"
    /\ Get(loaded[RenderedTheme], "ui.cursor") = Str("#0000ff")
    /\ Get(loaded[RenderedTheme], "ui.highlight") # Undefined
    /\ Get(loaded[RenderedTheme], "ui.cursor.primary") = Undefined
    /\ resolved["ui.cursor"] = background["fg"]

\* C13: the resolved ui.statusline is an empty pair when the theme has no
\* ui.statusline; when it has one, the resolved fg is the statusline's own
\* fg if present and otherwise the background fg, and the resolved bg is the
\* statusline's own bg if present and otherwise the background bg.
C13_StatuslineDefaultsPerChannel ==
    pc \in {"normalize", "render", "done"} =>
        LET own == Get(loaded[RenderedTheme], "ui.statusline")
            statusline == resolved["ui.statusline"]
        IN /\ statusline.t = "obj"
           /\ IF own = Undefined THEN objs[statusline.id] = EmptyObj
              ELSE /\ DOMAIN objs[statusline.id] = {"fg", "bg"}
                   /\ objs[statusline.id]["fg"] =
                         (IF "fg" \in DOMAIN own.f THEN own.f["fg"]
                          ELSE background["fg"])
                   /\ objs[statusline.id]["bg"] =
                         (IF "bg" \in DOMAIN own.f THEN own.f["bg"]
                          ELSE background["bg"])

\* a rendered theme whose ui.statusline sets fg only: the resolved bg is the
\* background's bg
C13_Witness ==
    /\ pc = "done"
    /\ Get(loaded[RenderedTheme], "ui.statusline") = Tbl("fg" :> Str("#777777"))
    /\ objs[resolved["ui.statusline"].id] =
          ("fg" :> Str("#777777") @@ "bg" :> background["bg"])
    /\ background["bg"] = Get(Get(loaded[RenderedTheme], "ui.background"), "bg")
    /\ background["bg"] # background["fg"]

----------------------------------------------------------------------------
(* Properties of the scaffold generator (checked under SpecScaffold)      *)

IsInfix(needle, hay) ==
    \E i \in 0..(Len(hay) - Len(needle)) :
        SubSeq(hay, i + 1, i + Len(needle)) = needle

\* the text importing index.astro, and the mapping entry named index
SelfImport == <<" from \"./">> \o IndexAstro \o <<"\";">>

SelfExport == <<"\t", "i", "n", "d", "e", "x", ",">>

\* the writes a run made to a folder's index file
WritesTo(folder) == {i \in DOMAIN written : written[i].folder = folder}

\* C8: the scaffold generator is idempotent: every run writes the same
\* index file content for a folder, the second run seeing the file the
\* first one wrote; the file holds exactly what the last run generated
\* (overwritten, not appended to) and never imports or exports itself.
C8_ScaffoldIdempotent ==
    \A folder \in Folders :
        /\ \A i, j \in WritesTo(folder) :
              written[i].content = written[j].content
        /\ \A i \in WritesTo(folder) :
              (\A j \in WritesTo(folder) : j <= i) =>
                  indexFile[folder] = written[i].content
        /\ \A i \in WritesTo(folder) :
              /\ ~IsInfix(SelfImport, written[i].content)
              /\ ~IsInfix(SelfExport, written[i].content)

\* a folder with another file was written in two runs; the first run found
\* no index.astro and the second found the one the first had written
C8_Witness ==
    \E i, j \in DOMAIN written :
        /\ written[i].folder = written[j].folder
        /\ written[i].run = 1
        /\ written[j].run = 2
        /\ written[i].files # <<>>
        /\ ~Contains(written[i].files, IndexAstro)
        /\ Contains(written[j].files, IndexAstro)
        /\ indexFile[written[j].folder] = written[j].content

\* the sibling files of the index file, in listing order
Siblings(files) == SelectSeq(files, LAMBDA f : f # IndexAstro)

\* a file name with its extension (the last "." and what follows) removed
StripExtension(file) ==
    LET dots == {i \in DOMAIN file : file[i] = "."}
    IN IF dots = {} THEN file
       ELSE SubSeq(file, 1, (CHOOSE i \in dots : \A j \in dots : j <= i) - 1)

EndsWithAstro(file) ==
    /\ Len(file) >= Len(DotAstro)
    /\ SubSeq(file, Len(file) - Len(DotAstro) + 1, Len(file)) = DotAstro

\* the index file with one import per file and one mapping key per file,
\* the key of files[i] being keys[i], both in the order of `files`
IndexWithKeys(files, keys) ==
    LET imports[i \in 0..Len(files)] ==
            IF i = 0 THEN <<>>
            ELSE imports[i - 1]
                 \o <<"\n", "import ">> \o keys[i]
                 \o <<" from \"./">> \o files[i] \o <<"\";">>
        entries[i \in 0..Len(files)] ==
            IF i = 0 THEN <<>>
            ELSE entries[i - 1] \o <<"\n", "\t">> \o keys[i] \o <<",">>
    IN <<"---\n">> \o disclaimer \o <<"\n">> \o imports[Len(files)]
       \o <<"\n\nexport const T = {">> \o entries[Len(files)]
       \o <<"\n};\n---">>

ExtensionStrippedKeys(files) ==
    [i \in DOMAIN Siblings(files) |-> StripExtension(Siblings(files)[i])]

\* C9 as stated: for every scanned folder the mapping object has exactly
\* one key per sibling file, the file's name with its extension stripped,
\* in listing order, and one matching import statement per key.
C9_KeysAreExtensionStripped ==
    \A i \in DOMAIN written :
        written[i].content =
            IndexWithKeys(Siblings(written[i].files),
                          ExtensionStrippedKeys(written[i].files))

\* C9 as amended: the same, for a folder whose sibling files all end in
\* ".astro" (six characters are removed from every name, whatever its
\* extension is).
C9_AstroKeysAreExtensionStripped ==
    \A i \in DOMAIN written :
        (\A k \in DOMAIN Siblings(written[i].files) :
            EndsWithAstro(Siblings(written[i].files)[k])) =>
            written[i].content =
                IndexWithKeys(Siblings(written[i].files),
                              ExtensionStrippedKeys(written[i].files))

\* a folder with two .astro files and its index.astro between them
C9_Witness ==
    \E i \in DOMAIN written :
        /\ Len(written[i].files) = 3
        /\ written[i].files[2] = IndexAstro
        /\ \A k \in {1, 3} : EndsWithAstro(written[i].files[k])

====
